---- MODULE Spec2Model ----
(***************************************************************************)
(* Model of the Deep Profiler data package (dpdata): the expand_lists      *)
(* helper, the ZeroMQ message functions, and the dp2sql / mpk2sql record   *)
(* ingestion tools that write sensor records and profile events to an SQL  *)
(* database.                                                               *)
(***************************************************************************)
EXTENDS Integers, Sequences, FiniteSets, TLC

VARIABLES
    data,       \* expand_lists: the argument dictionary
    newdict,    \* expand_lists: the dictionary returned
    twice,      \* expand_lists applied to its own result
    xpc,        \* position of the expand_lists exercise
    meta,       \* MetaData: the reflected tables, name -> column names
    tables,     \* the rows of every sensor table, in insertion order
    profiles,   \* the rows of the profiles table, in insertion order
    stderr,     \* what has been written to sys.stderr
    status,     \* "running", or the exception that ended the program
    last,       \* the message the writers handled last
    nmsgs,      \* number of messages handled so far
    socks,      \* monitor: the messages waiting on every SUB socket
    ready,      \* monitor: the sockets of this poll still to be read
    mpc,        \* monitor: "poll" or "drain" (inside the for loop)
    logevents,  \* monitor: the logevents argument
    recvd,      \* monitor: the last message parts read and what recv_message made of them
    npub,       \* number of messages published so far
    data_dict,  \* the data dictionary: sensor name -> its variable descriptors
    ddl,        \* the tables make_table has created: name -> columns, in order
    mdrows      \* the rows of the metadata table, in insertion order

xvars == <<data, newdict, twice, xpc>>
dbvars == <<tables, profiles, stderr, status, last>>
svars == <<meta, tables, profiles, stderr, status, last, nmsgs>>

mvars == <<socks, ready, mpc, logevents, recvd, npub>>
kvars == <<data_dict, ddl, mdrows>>

vars == <<data, newdict, twice, xpc, meta, tables, profiles, stderr, status, last, nmsgs,
          socks, ready, mpc, logevents, recvd, npub, data_dict, ddl, mdrows>>

(***************************************************************************)
(* Bounds of the model.                                                    *)
(***************************************************************************)
MaxLen == 2         \* longest list value in a data dictionary
MaxScalar == 2      \* scalar values are 1..MaxScalar
MaxMsgs == 3        \* messages handled in one run of the writers
MaxPnum == 2        \* profile numbers are 1..MaxPnum
MaxSecs == 1        \* seconds of a time stamp are 0..MaxSecs
NumSocks == 2       \* SUB sockets monitor is given
MaxPub == 3         \* messages published in one run of monitor
MaxNvals == 3       \* largest nvals of a variable descriptor
MaxRecords == 1     \* records written after the tables are made

(***************************************************************************)
(* Python values held by a data dictionary: a scalar, or a list (tuple)    *)
(* of values.  Both have the same record shape so that they compare.       *)
(***************************************************************************)
Scalar(n) == [kind |-> "scalar", val |-> n, elems |-> <<>>]
List(es) == [kind |-> "list", val |-> 0, elems |-> es]

SeqUpTo(S, n) == UNION {[1..l -> S] : l \in 0..n}

Scalars == {Scalar(n) : n \in 1..MaxScalar}
FlatLists == {List(s) : s \in SeqUpTo(Scalars, MaxLen)}
\* lists whose first element is itself a list
NestedLists == {List(<<List(<<Scalar(1)>>)>> \o s) : s \in SeqUpTo(Scalars, MaxLen - 1)}
Values == Scalars \cup FlatLists \cup NestedLists

\* field names; "v_0" is the name expand_lists derives from "v", index 0
FieldNames == {"v", "v_0", "w"}

\* Python dictionaries: functions from their keys
EmptyDict == [k \in {} |-> Scalar(1)]
DictsOver(K, V) == UNION {[S -> V] : S \in SUBSET K}
DictDel(d, k) == [j \in DOMAIN d \ {k} |-> d[j]]
DictUpdate(d, e) == [j \in DOMAIN d \cup DOMAIN e |-> IF j \in DOMAIN e THEN e[j] ELSE d[j]]

\* the orders in which a dictionary's items may be iterated
Perms(S) == {p \in [1..Cardinality(S) -> S] : \A i, j \in DOMAIN p : p[i] = p[j] => i = j}

(***************************************************************************)
(* dpdata.expand_lists                                                     *)
(***************************************************************************)
\* k + '_' + str(i)
ExpandedKey(k, i) == k \o "_" \o ToString(i)

\* a plausible slip: the index starts at 1
ExpandedItems_from1(k, v) ==
    [j \in {ExpandedKey(k, i) : i \in 1..Len(v.elems)} |->
        v.elems[CHOOSE i \in 1..Len(v.elems) : ExpandedKey(k, i) = j]]

\* dict([(k + '_' + str(i), e) for i, e in enumerate(v)])
ExpandedItems(k, v) ==
    [j \in {ExpandedKey(k, i - 1) : i \in 1..Len(v.elems)} |->
        v.elems[CHOOSE i \in 1..Len(v.elems) : ExpandedKey(k, i - 1) = j]]

\* isinstance(v, list) or isinstance(v, tuple)
IsList(v) == v.kind = "list"

\* a plausible slip: the list-valued entry is not deleted
expand_item_keep(nd, k, v) ==
    IF IsList(v) THEN DictUpdate(nd, ExpandedItems(k, v)) ELSE nd

\* one iteration of the loop over data.iteritems()
expand_item(nd, k, v) ==
    IF IsList(v) THEN DictUpdate(DictDel(nd, k), ExpandedItems(k, v)) ELSE nd

RECURSIVE expand_loop(_, _, _)
expand_loop(d, nd, order) ==
    IF order = <<>> THEN nd
    ELSE expand_loop(d, expand_item(nd, Head(order), d[Head(order)]), Tail(order))

\* expand_lists(data), the items of data being iterated in the given order
expand_lists(d, order) == expand_loop(d, d, order)

ListFields(d) == {k \in DOMAIN d : IsList(d[k])}
ScalarFields(d) == DOMAIN d \ ListFields(d)

RECURSIVE SetToSeq(_)
SetToSeq(S) ==
    IF S = {} THEN <<>>
    ELSE LET x == CHOOSE y \in S : TRUE IN <<x>> \o SetToSeq(S \ {x})

\* The iteration orders of data.iteritems() that can differ in their result:
\* an item whose value is not a list leaves newdict alone, so only the
\* relative order of the list-valued items is enumerated.
IterOrders(d) == {p \o SetToSeq(ScalarFields(d)) : p \in Perms(ListFields(d))}

\* expand_lists is not being exercised
ExpandIdle ==
    /\ data = EmptyDict
    /\ newdict = EmptyDict
    /\ twice = EmptyDict
    /\ xpc = "idle"

\* make_table is not being exercised
SchemaIdle ==
    /\ data_dict = [n \in {} |-> <<>>]
    /\ ddl = [n \in {} |-> <<>>]
    /\ mdrows = <<>>

(***************************************************************************)
(* The SQL database the writers target.  A cell is <<>> (NULL) or <<x>>.   *)
(***************************************************************************)
UsecPerSec == 1000000

Null == <<>>
Cell(x) == <<x>>

\* the sensor table provisioned in the database, and a sensor without table
SensorColumns == {"timestamp", "v_0", "v_1", "w"}
ProfileColumns == {"start", "end", "pnum", "mode"}
MetaWith(names) ==
    [n \in names |-> IF n = "profiles" THEN ProfileColumns ELSE SensorColumns]

\* rows of a table whose column c holds x
RowsWith(rows, c, x) == SelectSeq(rows, LAMBDA r : r[c] = Cell(x))

ProfileRow(start, end, pnum, mode) ==
    [start |-> start, end |-> end, pnum |-> pnum, mode |-> mode]

\* UNIQUE constraint on column c: would inserting a row holding x violate it
ViolatesUnique(rows, c, x) == RowsWith(rows, c, x) # <<>>

\* UNIQUE constraint on column c holds of the rows
IsUnique(rows, c) ==
    \A i, j \in DOMAIN rows : (rows[i][c] = rows[j][c] /\ rows[i][c] # Null) => i = j

(***************************************************************************)
(* Python objects that travel as message parts and contents: a dictionary  *)
(* or a string.  A string is either literal text (chars) or the JSON text  *)
(* of a dictionary (obj), in both cases wrapped quoted times in a JSON     *)
(* string literal.                                                         *)
(***************************************************************************)
PyDict(d) == [type |-> "dict", chars |-> "", quoted |-> 0, obj |-> d]
PyStr(c) == [type |-> "str", chars |-> c, quoted |-> 0, obj |-> EmptyDict]
IsDict(x) == x.type = "dict"
NoMsg == PyDict(EmptyDict)

\* json.dumps(x): the JSON text of a dictionary, the JSON string literal
\* of a string
json_dumps(x) ==
    IF IsDict(x) THEN [type |-> "str", chars |-> "", quoted |-> 1, obj |-> x.obj]
    ELSE [x EXCEPT !.quoted = @ + 1]

DataMsg(name, t, d) == PyDict([name |-> name, t |-> t, data |-> d])
EventMsg(name, t, attrs) == PyDict([name |-> name, t |-> t, attrs |-> attrs])

Times == {<<0, 0>>, <<0, 1>>} \cup {<<s, 0>> : s \in 1..MaxSecs}
Pnums == 1..MaxPnum
Modes == {"up", "down"}
SensorNames == {"ctd", "optode"}
\* the second and third leave columns out; the last names a column "v"
\* the table does not have
SinkDicts ==
    { [v |-> List(<<Scalar(1), Scalar(2)>>), w |-> Scalar(1)],
      [w |-> Scalar(2)],
      [v |-> List(<<Scalar(2)>>)],
      [v |-> Scalar(1)] }

DataMsgs == {DataMsg(n, t, d) : n \in SensorNames, t \in Times, d \in SinkDicts}
StartMsgs ==
    {EventMsg("profile:start", t, [pnum |-> p, mode |-> m]) : t \in Times, p \in Pnums, m \in Modes}
EndMsgs == {EventMsg("profile:end", t, [pnum |-> p]) : t \in Times, p \in Pnums}
OtherEventMsgs == {EventMsg("dock:enter", t, [pnum |-> p]) : t \in {<<0, 0>>}, p \in {1}}
EventMsgs == StartMsgs \cup EndMsgs \cup OtherEventMsgs

(***************************************************************************)
(* dp2sql: insert_data, insert_event                                       *)
(***************************************************************************)
\* an exception nobody catches ends the program; the database is as it was
Raise(e) ==
    /\ status' = e
    /\ UNCHANGED <<tables, profiles, stderr>>

\* int(secs * 1000000) + usecs
Timestamp(secs, usecs) == secs * UsecPerSec + usecs

\* the row an INSERT builds from the keyword arguments: NULL where no
\* value is given
SensorRow(cols, rec) ==
    [c \in cols |-> IF c \in DOMAIN rec THEN Cell(rec[c].val) ELSE Null]

\* a plausible slip: the row replaces the one holding the time stamp
add_record_replace(name, rec, secs, usecs) ==
    LET ts == rec["timestamp"].val
        keep == SelectSeq(tables[name], LAMBDA r : r["timestamp"] # Cell(ts))
    IN  IF ~(DOMAIN rec \subseteq meta[name]) THEN Raise("CompileError")
        ELSE /\ tables' = [tables EXCEPT ![name] = Append(keep, SensorRow(meta[name], rec))]
             /\ UNCHANGED <<profiles, stderr, status>>

\* try: add_record(conn, ins, record) except IntegrityError: report, skip
add_record(name, rec, secs, usecs) ==
    IF ~(DOMAIN rec \subseteq meta[name])
    THEN Raise("CompileError")      \* unconsumed column names: not caught
    ELSE IF ViolatesUnique(tables[name], "timestamp", rec["timestamp"].val)
    THEN /\ stderr' = stderr \o << [line |-> "IntegrityError", secs |-> secs, usecs |-> usecs],
                                   [line |-> "Skipping row", secs |-> secs, usecs |-> usecs] >>
         /\ UNCHANGED <<tables, profiles, status>>
    ELSE /\ tables' = [tables EXCEPT ![name] = Append(@, SensorRow(meta[name], rec))]
         /\ UNCHANGED <<profiles, stderr, status>>

\* data['timestamp'] = ...; add_record(conn, ins, expand_lists(data))
write_record(name, d, secs, usecs) ==
    LET stamped == DictUpdate(d, [timestamp |-> Scalar(Timestamp(secs, usecs))])
    IN  \E order \in IterOrders(stamped) :
            add_record(name, expand_lists(stamped, order), secs, usecs)

insert_data(msg) ==
    /\ last' = [op |-> "insert_data", msg |-> msg]
    /\ IF ~IsDict(msg) THEN Raise("TypeError")      \* msg['t'] of a string
       ELSE IF ~({"t", "name"} \subseteq DOMAIN msg.obj) THEN Raise("KeyError")
       ELSE IF msg.obj.name \notin DOMAIN meta
            THEN UNCHANGED <<tables, profiles, stderr, status>>
       ELSE IF "data" \notin DOMAIN msg.obj THEN Raise("KeyError")
       ELSE write_record(msg.obj.name, msg.obj.data, msg.obj.t[1], msg.obj.t[2])

\* a plausible slip: the pnum of the event is not used to select the row
UpdateEnd_all(rows, pnum, secs) ==
    [i \in DOMAIN rows |-> [rows[i] EXCEPT !.end = Cell(secs)]]

\* tbl.update().where(tbl.c.pnum == pnum), executed with end=secs
UpdateEnd(rows, pnum, secs) ==
    [i \in DOMAIN rows |->
        IF rows[i].pnum = Cell(pnum) THEN [rows[i] EXCEPT !.end = Cell(secs)] ELSE rows[i]]

\* conn.execute(ins, ...) on the profiles table; pnum is UNIQUE
InsertProfile(row) ==
    IF ViolatesUnique(profiles, "pnum", row.pnum[1])
    THEN Raise("IntegrityError")
    ELSE /\ profiles' = Append(profiles, row)
         /\ UNCHANGED <<tables, stderr, status>>

insert_event(msg) ==
    /\ last' = [op |-> "insert_event", msg |-> msg]
    /\ IF "profiles" \notin DOMAIN meta
       THEN UNCHANGED <<tables, profiles, stderr, status>>
       ELSE IF ~IsDict(msg) THEN Raise("TypeError")     \* msg['t'] of a string
       ELSE IF ~({"t", "attrs", "name"} \subseteq DOMAIN msg.obj) THEN Raise("KeyError")
       ELSE LET secs == msg.obj.t[1]
                attrs == msg.obj.attrs
            IN  IF msg.obj.name = "profile:start"
                THEN IF ~({"pnum", "mode"} \subseteq DOMAIN attrs) THEN Raise("KeyError")
                     ELSE InsertProfile(ProfileRow(Cell(secs), Null, Cell(attrs.pnum), Cell(attrs.mode)))
                ELSE IF msg.obj.name = "profile:end"
                THEN IF "pnum" \notin DOMAIN attrs THEN Raise("KeyError")
                     ELSE LET updated == UpdateEnd(profiles, attrs.pnum, secs)
                          IN  IF ~IsUnique(updated, "pnum")     \* IntegrityError
                              THEN InsertProfile(ProfileRow(Null, Cell(secs), Cell(attrs.pnum), Null))
                              ELSE /\ profiles' = updated
                                   /\ UNCHANGED <<tables, stderr, status>>
                ELSE UNCHANGED <<tables, profiles, stderr, status>>

(***************************************************************************)
(* mpk2sql: main, one record of the archive file                           *)
(***************************************************************************)
mpk2sql_record(name, secs, usecs, d) ==
    /\ last' = [op |-> "mpk2sql", msg |-> DataMsg(name, <<secs, usecs>>, d)]
    /\ IF name \notin DOMAIN meta THEN Raise("RuntimeError")
       ELSE write_record(name, d, secs, usecs)

(***************************************************************************)
(* Specification SpecSink: the writers handle decoded messages.            *)
(***************************************************************************)
\* nothing has been received
NoRecv == [parts |-> <<>>, raised |-> "none", mtype |-> PyStr(""), contents |-> NoMsg]

\* monitor is not running
MonitorIdle ==
    /\ socks = [e \in {} |-> <<>>]
    /\ ready = <<>>
    /\ mpc = "idle"
    /\ logevents = FALSE
    /\ recvd = NoRecv
    /\ npub = 0

\* the writers are not running
SinkIdle ==
    /\ meta = MetaWith({})
    /\ tables = [n \in {} |-> <<>>]
    /\ profiles = <<>>
    /\ stderr = <<>>
    /\ status = "idle"
    /\ last = [op |-> "none", msg |-> NoMsg]
    /\ nmsgs = 0

\* the database as meta.reflect finds it
InitSink ==
    /\ meta \in {MetaWith({"ctd", "profiles"}), MetaWith({"ctd"})}
    /\ tables = [n \in {"ctd"} |-> <<>>]
    /\ profiles = <<>>
    /\ stderr = <<>>
    /\ status = "running"
    /\ last = [op |-> "none", msg |-> NoMsg]
    /\ nmsgs = 0
    /\ ExpandIdle
    /\ SchemaIdle
    /\ MonitorIdle

Handled ==
    /\ status = "running"
    /\ nmsgs < MaxMsgs
    /\ nmsgs' = nmsgs + 1
    /\ UNCHANGED meta
    /\ UNCHANGED xvars
    /\ UNCHANGED kvars
    /\ UNCHANGED mvars

InsertData == Handled /\ \E msg \in DataMsgs : insert_data(msg)

InsertEvent == Handled /\ \E msg \in EventMsgs : insert_event(msg)

ImportRecord ==
    Handled /\ \E n \in SensorNames, t \in Times, d \in SinkDicts : mpk2sql_record(n, t[1], t[2], d)

NextSink == InsertData \/ InsertEvent \/ ImportRecord

SpecSink == InitSink /\ [][NextSink]_vars

(***************************************************************************)
(* Properties of the writers (SpecSink)                                    *)
(***************************************************************************)
HasProfiles == "profiles" \in DOMAIN meta
ProfileOf(rows, p) == RowsWith(rows, "pnum", p)

\* the step handles this kind of profile event for profile number p
StartStep(p) ==
    /\ last'.op = "insert_event"
    /\ last'.msg.obj.name = "profile:start"
    /\ last'.msg.obj.attrs.pnum = p
EndStep(p) ==
    /\ last'.op = "insert_event"
    /\ last'.msg.obj.name = "profile:end"
    /\ last'.msg.obj.attrs.pnum = p
EventSecs == last'.msg.obj.t[1]

\* C1: when insert_event handles 'profile:end' for a pnum without a row,
\* the profiles table afterwards has exactly one row for that pnum, with
\* end the event's seconds and start and mode NULL, and no error is raised.
C1_EndWithoutStart ==
    [][\A p \in Pnums :
        (HasProfiles /\ EndStep(p) /\ ProfileOf(profiles, p) = <<>>) =>
            /\ status' = "running"
            /\ ProfileOf(profiles', p) = <<ProfileRow(Null, Cell(EventSecs), Cell(p), Null)>>
      ]_vars

\* the step writes a record for a provisioned sensor table
WriteStep == last'.op \in {"insert_data", "mpk2sql"} /\ last'.msg.obj.name \in DOMAIN tables
WrittenName == last'.msg.obj.name
WrittenData == last'.msg.obj.data
WrittenStamp == last'.msg.obj.t[1] * 1000000 + last'.msg.obj.t[2]

\* the names of the columns a record supplies
SuppliedColumns(d) ==
    ScalarFields(d) \cup
    UNION {{ExpandedKey(k, i - 1) : i \in 1..Len(d[k].elems)} : k \in ListFields(d)}

\* the row a record is to be stored as
ExpectedCell(d, stamp, c) ==
    IF c = "timestamp" THEN Cell(stamp)
    ELSE IF c \in ScalarFields(d) THEN Cell(d[c].val)
    ELSE IF \E k \in ListFields(d) : \E i \in 1..Len(d[k].elems) : ExpandedKey(k, i - 1) = c
    THEN LET k == CHOOSE k \in ListFields(d) : \E i \in 1..Len(d[k].elems) : ExpandedKey(k, i - 1) = c
             i == CHOOSE i \in 1..Len(d[k].elems) : ExpandedKey(k, i - 1) = c
         IN  Cell(d[k].elems[i].val)
    ELSE Null

DuplicateReports(log) == Len(SelectSeq(log, LAMBDA l : l.line = "Skipping row"))

\* C2: a record written to a provisioned sensor table (its fields being
\* columns of the table) whose time stamp the table already holds leaves
\* the table as it was and produces exactly one duplicate-key report; a
\* record with a new time stamp is appended as a row, without a report;
\* neither raises an error, and no time stamp is ever held by two rows.
C2_DuplicateTimestamp ==
    [][(WriteStep /\ SuppliedColumns(WrittenData) \subseteq meta[WrittenName]) =>
        /\ status' = "running"
        /\ IsUnique(tables'[WrittenName], "timestamp")
        /\ IF RowsWith(tables[WrittenName], "timestamp", WrittenStamp) # <<>>
           THEN /\ tables' = tables
                /\ DuplicateReports(stderr') = DuplicateReports(stderr) + 1
           ELSE /\ tables' = [tables EXCEPT ![WrittenName] =
                        Append(@, [c \in meta[WrittenName] |->
                                      ExpectedCell(WrittenData, WrittenStamp, c)])]
                /\ stderr' = stderr
      ]_vars

\* two records with one time stamp, then a record with another: the table
\* holds two rows, the last one written last, and there is one report
C2_Witness ==
    /\ nmsgs = 3
    /\ last.op \in {"insert_data", "mpk2sql"}
    /\ last.msg.obj.name = "ctd"
    /\ DuplicateReports(stderr) = 1
    /\ Len(tables["ctd"]) = 2
    /\ tables["ctd"][2]["timestamp"] = Cell(last.msg.obj.t[1] * 1000000 + last.msg.obj.t[2])
    /\ status = "running"

IsOpen(rows) == rows # <<>> /\ \A i \in DOMAIN rows : rows[i].end = Null
IsClosed(rows) == rows # <<>> /\ \A i \in DOMAIN rows : rows[i].end # Null

\* C5: with a profiles table whose pnum is unique, a repeated
\* 'profile:start' for a pnum with an OPEN row, and a repeated 'profile:end'
\* for a pnum with a CLOSED row, are accepted: insert_event returns normally
\* and the program goes on.
C5_RepeatedEventsAccepted ==
    [][\A p \in Pnums :
        /\ (HasProfiles /\ StartStep(p) /\ IsOpen(ProfileOf(profiles, p))) => status' = "running"
        /\ (HasProfiles /\ EndStep(p) /\ IsClosed(ProfileOf(profiles, p))) => status' = "running"
      ]_vars

\* C6: a decoded DATA record addressed to a sensor without a table changes
\* no table, is reported on the log stream, and does not end the program.
C6_UnknownTableReported ==
    [][(last'.op = "insert_data" /\ last'.msg.obj.name \notin DOMAIN meta) =>
        /\ tables' = tables
        /\ profiles' = profiles
        /\ status' = "running"
        /\ stderr' # stderr
      ]_vars

\* C7: a 'profile:start' {pnum p, mode m} at s1 for a p without a row
\* leaves exactly one row for p, OPEN: {s1, NULL, p, m}; no message other
\* than a profile event for p changes the rows of p; a 'profile:end' {p}
\* at s2 turns that row into {s1, s2, p, m}, still the only row for p.
C7_ProfileLifecycle ==
    [][HasProfiles => \A p \in Pnums :
        /\ (StartStep(p) /\ ProfileOf(profiles, p) = <<>>) =>
              /\ status' = "running"
              /\ ProfileOf(profiles', p) =
                    <<ProfileRow(Cell(EventSecs), Null, Cell(p), Cell(last'.msg.obj.attrs.mode))>>
        /\ (EndStep(p) /\ Len(ProfileOf(profiles, p)) = 1 /\ IsOpen(ProfileOf(profiles, p))
                /\ ProfileOf(profiles, p)[1].start # Null) =>
              /\ status' = "running"
              /\ ProfileOf(profiles', p) =
                    <<[ProfileOf(profiles, p)[1] EXCEPT !.end = Cell(EventSecs)]>>
        /\ ~(StartStep(p) \/ EndStep(p)) => ProfileOf(profiles', p) = ProfileOf(profiles, p)
      ]_vars

\* start for p at 0, an unrelated start for another profile, end for p at 1
C7_Witness ==
    /\ nmsgs = 3
    /\ last = [op |-> "insert_event", msg |-> EventMsg("profile:end", <<1, 0>>, [pnum |-> 1])]
    /\ ProfileOf(profiles, 1) = <<ProfileRow(Cell(0), Cell(1), Cell(1), Cell("down"))>>
    /\ Len(profiles) = 2
    /\ IsOpen(ProfileOf(profiles, 2))
    /\ status = "running"

(***************************************************************************)
(* dpdata.zmq: send_message, recv_message.  A multipart message is the     *)
(* sequence of its parts.                                                  *)
(***************************************************************************)
Commands == {"DATA", "Event", "ping"}

\* command.upper()
Upper(c) ==
    CASE c = "Event" -> "EVENT"
      [] c = "ping" -> "PING"
      [] OTHER -> c

\* sock.send_multipart([bytes(command.upper()), json.dumps(params)])
send_message(command, params) == <<PyStr(Upper(command)), json_dumps(params)>>

\* mtype, contents = sock.recv_multipart(); return mtype, json.dumps(contents)
recv_message(parts) ==
    IF Len(parts) # 2
    THEN [parts |-> parts, raised |-> "ValueError", mtype |-> PyStr(""), contents |-> NoMsg]
    ELSE [parts |-> parts, raised |-> "none", mtype |-> parts[1], contents |-> json_dumps(parts[2])]

(***************************************************************************)
(* dp2sql: monitor                                                         *)
(***************************************************************************)
Endpoints == 1..NumSocks

\* what publishers using send_message pass as params
Params ==
    { DataMsg("ctd", <<0, 0>>, [w |-> Scalar(2)]),
      EventMsg("profile:start", <<0, 0>>, [pnum |-> 1, mode |-> "up"]),
      EventMsg("profile:end", <<1, 0>>, [pnum |-> 1]) }

\* what other parties put on the wire: one part, three parts, a payload
\* that is not JSON
RawMessages ==
    { <<PyStr("DATA")>>,
      <<PyStr("EVENT"), json_dumps(EventMsg("profile:end", <<1, 0>>, [pnum |-> 1])), PyStr("")>>,
      <<PyStr("DATA"), PyStr("{")>>,
      <<PyStr("STATUS"), PyStr("{")>> }

\* a plausible slip: the logevents flag is not tested
monitor_dispatch_noflag(mtype, contents) ==
    IF mtype = PyStr("DATA") THEN insert_data(contents)
    ELSE IF mtype = PyStr("EVENT") THEN insert_event(contents)
    ELSE UNCHANGED dbvars

\* the body of the for loop, after recv_message
monitor_dispatch(mtype, contents) ==
    IF mtype = PyStr("DATA") THEN insert_data(contents)
    ELSE IF mtype = PyStr("EVENT") /\ logevents THEN insert_event(contents)
    ELSE UNCHANGED dbvars

\* monitor(socks, conn, meta, logevents) is entered; nothing is published yet
Init ==
    /\ socks = [e \in Endpoints |-> <<>>]
    /\ ready = <<>>
    /\ mpc = "poll"
    /\ logevents \in BOOLEAN
    /\ recvd = NoRecv
    /\ npub = 0
    /\ meta \in {MetaWith({"ctd", "profiles"}), MetaWith({"ctd"})}
    /\ tables = [n \in {"ctd"} |-> <<>>]
    /\ profiles = <<>>
    /\ stderr = <<>>
    /\ status = "running"
    /\ last = [op |-> "none", msg |-> NoMsg]
    /\ nmsgs = 0
    /\ ExpandIdle
    /\ SchemaIdle

\* a publisher calls send_message; the message reaches the SUB socket
Publish ==
    /\ npub < MaxPub
    /\ npub' = npub + 1
    /\ \E e \in Endpoints, c \in Commands, p \in Params :
          socks' = [socks EXCEPT ![e] = Append(@, send_message(c, p))]
    /\ UNCHANGED <<ready, mpc, logevents, recvd>>
    /\ UNCHANGED svars
    /\ UNCHANGED xvars
    /\ UNCHANGED kvars

\* some other party publishes a message of its own making
PublishRaw ==
    /\ npub < MaxPub
    /\ npub' = npub + 1
    /\ \E e \in Endpoints, parts \in RawMessages :
          socks' = [socks EXCEPT ![e] = Append(@, parts)]
    /\ UNCHANGED <<ready, mpc, logevents, recvd>>
    /\ UNCHANGED svars
    /\ UNCHANGED xvars
    /\ UNCHANGED kvars

\* ready = dict(poller.poll()): blocks until a socket is readable; the
\* for loop visits the ready sockets in the order of the dictionary
Poll ==
    /\ status = "running"
    /\ mpc = "poll"
    /\ LET readable == {e \in Endpoints : socks[e] # <<>>}
       IN  /\ readable # {}
           /\ ready' \in Perms(readable)
    /\ mpc' = "drain"
    /\ UNCHANGED <<socks, logevents, recvd, npub>>
    /\ UNCHANGED svars
    /\ UNCHANGED xvars
    /\ UNCHANGED kvars

\* a plausible slip: a ready socket is read until it is empty before the
\* loop moves on to the next one
Recv_drain ==
    /\ status = "running"
    /\ mpc = "drain"
    /\ LET sock == Head(ready)
           r == recv_message(Head(socks[sock]))
       IN  /\ socks' = [socks EXCEPT ![sock] = Tail(@)]
           /\ recvd' = r
           /\ IF r.raised # "none"
              THEN /\ status' = r.raised
                   /\ UNCHANGED <<tables, profiles, stderr, last>>
              ELSE monitor_dispatch(r.mtype, r.contents)
           /\ ready' = IF Tail(socks[sock]) # <<>> THEN ready ELSE Tail(ready)
           /\ mpc' = IF Tail(socks[sock]) = <<>> /\ Tail(ready) = <<>> THEN "poll" ELSE "drain"
    /\ nmsgs' = nmsgs + 1
    /\ UNCHANGED <<meta, logevents, npub>>
    /\ UNCHANGED xvars
    /\ UNCHANGED kvars

\* one iteration of `for sock in ready`
Recv ==
    /\ status = "running"
    /\ mpc = "drain"
    /\ LET sock == Head(ready)
           r == recv_message(Head(socks[sock]))
       IN  /\ socks' = [socks EXCEPT ![sock] = Tail(@)]
           /\ recvd' = r
           /\ IF r.raised # "none"
              THEN /\ status' = r.raised
                   /\ UNCHANGED <<tables, profiles, stderr, last>>
              ELSE monitor_dispatch(r.mtype, r.contents)
    /\ ready' = Tail(ready)
    /\ mpc' = IF Tail(ready) = <<>> THEN "poll" ELSE "drain"
    /\ nmsgs' = nmsgs + 1
    /\ UNCHANGED <<meta, logevents, npub>>
    /\ UNCHANGED xvars
    /\ UNCHANGED kvars

Next == Publish \/ PublishRaw \/ Poll \/ Recv

Spec == Init /\ [][Next]_vars

(***************************************************************************)
(* Properties of the message functions and of monitor (Spec)               *)
(***************************************************************************)
\* C3: a message produced by send_message(sock, command, params) is
\* returned by recv_message as (upper-cased command, params).
C3_DecodeInvertsEncode ==
    \A c \in Commands, p \in Params :
        recvd.parts = send_message(c, p) =>
            /\ recvd.raised = "none"
            /\ recvd.mtype = PyStr(Upper(c))
            /\ recvd.contents = p

\* the step reads a message from a socket
RecvStep == nmsgs' = nmsgs + 1

\* the message does not decode: it has not two parts, or its second part
\* is not the JSON text of a dictionary
FailsToDecode(parts) ==
    \/ Len(parts) # 2
    \/ ~(parts[2].type = "str" /\ parts[2].chars = "" /\ parts[2].quoted = 1)

\* C4: a message that fails to decode is dropped on its own: monitor goes
\* on and the database is as it was.
C4_DecodeFailureDropped ==
    [][(RecvStep /\ FailsToDecode(recvd'.parts)) =>
        /\ status' = "running"
        /\ UNCHANGED <<tables, profiles, stderr>>
      ]_vars

\* C8: a two-part message whose tag is not DATA, and not EVENT while event
\* logging is enabled, changes nothing in the database and monitor goes on.
C8_OtherKindsNoOp ==
    [][(RecvStep /\ Len(recvd'.parts) = 2
            /\ recvd'.parts[1] # PyStr("DATA")
            /\ ~(recvd'.parts[1] = PyStr("EVENT") /\ logevents)) =>
        /\ status' = "running"
        /\ UNCHANGED <<tables, profiles, stderr>>
      ]_vars

\* with logging disabled and a profiles table, two messages have been
\* published and read, the second an EVENT 'profile:start' sent with
\* send_message; no row was written and monitor is running
C8_Witness ==
    /\ ~logevents
    /\ HasProfiles
    /\ npub = 2
    /\ nmsgs = 2
    /\ recvd.parts = send_message("Event", EventMsg("profile:start", <<0, 0>>, [pnum |-> 1, mode |-> "up"]))
    /\ recvd.raised = "none"
    /\ \A e \in Endpoints : socks[e] = <<>>
    /\ status = "running"
    /\ profiles = <<>>

\* the step is poller.poll() returning
PollStep == mpc = "poll" /\ mpc' = "drain"

\* the endpoints with a message waiting
Readable == {e \in Endpoints : socks[e] # <<>>}

\* queue q2 is q with messages added at its end
Extends(q2, q) == Len(q2) >= Len(q) /\ SubSeq(q2, 1, Len(q)) = q

Descriptor(n, p, t, nv, us) ==
    [k \in {"name"} \cup (IF p # <<>> THEN {"precision"} ELSE {})
                    \cup (IF t # <<>> THEN {"tostr"} ELSE {})
                    \cup (IF nv # <<>> THEN {"nvals"} ELSE {})
                    \cup (IF us THEN {"units", "scale"} ELSE {}) |->
        CASE k = "name" -> n
          [] k = "precision" -> p[1]
          [] k = "tostr" -> t[1]
          [] k = "nvals" -> nv[1]
          [] k = "units" -> "m"
          [] k = "scale" -> 10]

Descriptors(n) ==
    {Descriptor(n, p, t, nv, us) :
        p \in {<<>>, <<"1">>, <<"0.01">>},
        t \in {<<>>, <<"str">>},
        nv \in {<<>>} \cup {<<i>> : i \in 1..MaxNvals},
        us \in BOOLEAN}

\* cfg['data'] of a sensor: one or two descriptors
DescriptorLists ==
    {<<d>> : d \in Descriptors("v")} \cup
    {<<d, e>> : d \in Descriptors("v"), e \in Descriptors("w")}

\* desc.get(k, default)
DescGet(desc, k, default) == IF k \in DOMAIN desc THEN desc[k] ELSE default

\* the ctype the loop body chooses
column_type(desc) ==
    IF "precision" \in DOMAIN desc
    THEN IF desc["precision"] = "1" THEN "Integer" ELSE "Float"
    ELSE IF DescGet(desc, "tostr", "") = "str" THEN "Text" ELSE "Integer"

\* the local variable precision after the if statement: <<>> is unbound;
\* the Text branch leaves it as the previous iteration left it
bound_precision(desc, prev) ==
    IF "precision" \in DOMAIN desc THEN <<desc["precision"]>>
    ELSE IF DescGet(desc, "tostr", "") = "str" THEN prev
    ELSE <<"1">>

\* '{0}_{1:d}'.format(desc['name'], i)
ColumnName(name, i) == name \o "_" \o ToString(i)

\* a plausible slip: the columns of a descriptor are numbered from 1
column_names_from1(desc) ==
    LET nvals == DescGet(desc, "nvals", 1)
    IN  IF nvals = 1 THEN <<desc["name"]>>
        ELSE [i \in 1..nvals |-> ColumnName(desc["name"], i)]

\* the names of the columns appended for a descriptor
column_names(desc) ==
    LET nvals == DescGet(desc, "nvals", 1)
    IN  IF nvals = 1 THEN <<desc["name"]>>
        ELSE [i \in 1..nvals |-> ColumnName(desc["name"], i - 1)]

Column(name, ctype, unique) == [name |-> name, ctype |-> ctype, unique |-> unique]

MetadataRow(sensor, varname, units, precision, scale) ==
    [sensor |-> sensor, varname |-> varname, units |-> units,
     precision |-> precision, scale |-> scale]

\* for desc in cfg['data']: ...; st holds cols, metadata, the local
\* variable precision and the exception raised, if any
RECURSIVE make_table_loop(_, _, _)
make_table_loop(sensor, descs, st) ==
    IF descs = <<>> \/ st.raised # "none" THEN st
    ELSE LET desc == Head(descs)
             ctype == column_type(desc)
             precision == bound_precision(desc, st.precision)
             units == DescGet(desc, "units", "")
             scale == DescGet(desc, "scale", 1)
             names == column_names(desc)
         IN  IF names # <<>> /\ precision = <<>>
             THEN [st EXCEPT !.raised = "UnboundLocalError"]
             ELSE make_table_loop(sensor, Tail(descs),
                    [cols |-> st.cols \o [i \in DOMAIN names |-> Column(names[i], ctype, FALSE)],
                     metadata |-> st.metadata \o
                        [i \in DOMAIN names |->
                            MetadataRow(sensor, names[i], units, precision[1], scale)],
                     precision |-> precision,
                     raised |-> "none"])

ColumnNames(cols) == {cols[i].name : i \in DOMAIN cols}

make_table(sensor) ==
    /\ last' = [op |-> "make_table", msg |-> PyDict([name |-> sensor])]
    /\ UNCHANGED <<profiles, stderr, data_dict>>
    /\ IF sensor \notin DOMAIN data_dict
       THEN /\ status' = "KeyError"
            /\ UNCHANGED <<meta, tables, ddl, mdrows>>
       ELSE LET st == make_table_loop(sensor, data_dict[sensor],
                        [cols |-> <<Column("timestamp", "Integer", TRUE)>>,
                         metadata |-> <<>>, precision |-> <<>>, raised |-> "none"])
            IN  IF st.raised # "none"
                THEN /\ status' = st.raised
                     /\ UNCHANGED <<meta, tables, ddl, mdrows>>
                ELSE IF sensor \in DOMAIN meta
                THEN /\ status' = "InvalidRequestError"     \* Table already defined
                     /\ UNCHANGED <<meta, tables, ddl, mdrows>>
                ELSE /\ meta' = [n \in DOMAIN meta \cup {sensor} |->
                                    IF n = sensor THEN ColumnNames(st.cols) ELSE meta[n]]
                     /\ ddl' = [n \in DOMAIN ddl \cup {sensor} |->
                                    IF n = sensor THEN st.cols ELSE ddl[n]]
                     /\ tables' = [n \in DOMAIN tables \cup {sensor} |->
                                    IF n = sensor THEN <<>> ELSE tables[n]]
                     /\ mdrows' = IF "metadata" \in DOMAIN meta
                                  THEN mdrows \o st.metadata ELSE mdrows
                     /\ status' = status

(***************************************************************************)
(* Specification SpecSchema: make_table provisions the tables of a data    *)
(* dictionary, then a record is written with insert_data.                  *)
(***************************************************************************)
MetadataColumns == {"sensor", "varname", "units", "precision", "scale"}

\* the values a record may hold for a variable
RecordValues == {Scalar(1)} \cup {List([i \in 1..n |-> Scalar(1)]) : n \in 1..MaxNvals}

\* records holding a value for every variable of the sensor
RecordsFor(descs) == [{descs[i]["name"] : i \in DOMAIN descs} -> RecordValues]

\* mktables.make_tables creates the metadata table first; other callers
\* of make_table may pass a MetaData without it
InitSchema ==
    /\ data_dict \in {[n \in {"ctd"} |-> dl] : dl \in DescriptorLists}
    /\ ddl = [n \in {} |-> <<>>]
    /\ mdrows = <<>>
    /\ meta \in {[n \in {"metadata"} |-> MetadataColumns], [n \in {} |-> {}]}
    /\ tables = [n \in {} |-> <<>>]
    /\ profiles = <<>>
    /\ stderr = <<>>
    /\ status = "running"
    /\ last = [op |-> "none", msg |-> NoMsg]
    /\ nmsgs = 0
    /\ ExpandIdle
    /\ MonitorIdle

MakeTable ==
    /\ status = "running"
    /\ \E sensor \in SensorNames : make_table(sensor)
    /\ UNCHANGED nmsgs
    /\ UNCHANGED xvars
    /\ UNCHANGED mvars

WriteRecord ==
    /\ status = "running"
    /\ nmsgs < MaxRecords
    /\ nmsgs' = nmsgs + 1
    /\ \E d \in RecordsFor(data_dict["ctd"]) : insert_data(DataMsg("ctd", <<0, 0>>, d))
    /\ UNCHANGED meta
    /\ UNCHANGED xvars
    /\ UNCHANGED mvars
    /\ UNCHANGED kvars

NextSchema == MakeTable \/ WriteRecord

SpecSchema == InitSchema /\ [][NextSchema]_vars

(***************************************************************************)
(* Properties of make_table (checked under SpecSchema).                    *)
(***************************************************************************)
\* make_table(sensor) is called for a sensor of the dictionary that has no table yet
MakeTableStep(sensor) ==
    /\ last'.op = "make_table"
    /\ last'.msg.obj["name"] = sensor
    /\ sensor \in DOMAIN data_dict
    /\ sensor \notin DOMAIN meta

\* the multiplicity of a descriptor (1 when absent)
Multiplicity(desc) == IF "nvals" \in DOMAIN desc THEN desc["nvals"] ELSE 1

\* the physical column names the specification gives a descriptor
PhysicalColumns(desc) ==
    IF Multiplicity(desc) > 1
    THEN [i \in 1..Multiplicity(desc) |-> desc["name"] \o "_" \o ToString(i - 1)]
    ELSE <<desc["name"]>>

RECURSIVE FlatMap(_, _)
FlatMap(Op(_), seq) == IF seq = <<>> THEN <<>> ELSE Op(Head(seq)) \o FlatMap(Op, Tail(seq))

ExpectedColumns(sensor) == <<"timestamp">> \o FlatMap(PhysicalColumns, data_dict[sensor])

\* C11: for every sensor of the dictionary make_table creates a table
\* whose columns are, in order, a unique timestamp column and then the
\* physical columns of each descriptor (name, or name_0 .. name_{N-1}).
C11_TableColumns ==
    [][\A sensor \in SensorNames :
        MakeTableStep(sensor) =>
            /\ status' = "running"
            /\ sensor \in DOMAIN ddl'
            /\ [i \in DOMAIN ddl'[sensor] |-> ddl'[sensor][i].name] = ExpectedColumns(sensor)
            /\ \A i \in DOMAIN ddl'[sensor] : ddl'[sensor][i].unique <=> (i = 1)
            /\ sensor \in DOMAIN tables']_vars

\* the metadata rows the specification gives a descriptor: units,
\* precision and scale are the descriptor's own, or the defaults
ExpectedMetadataOf(sensor, desc) ==
    [i \in DOMAIN PhysicalColumns(desc) |->
        [sensor |-> sensor,
         varname |-> PhysicalColumns(desc)[i],
         units |-> IF "units" \in DOMAIN desc THEN desc["units"] ELSE "",
         precision |-> IF "precision" \in DOMAIN desc THEN desc["precision"] ELSE "1",
         scale |-> IF "scale" \in DOMAIN desc THEN desc["scale"] ELSE 1]]

RECURSIVE ExpectedMetadata(_, _)
ExpectedMetadata(sensor, descs) ==
    IF descs = <<>> THEN <<>>
    ELSE ExpectedMetadataOf(sensor, Head(descs)) \o ExpectedMetadata(sensor, Tail(descs))

\* C12: with a metadata catalog, make_table appends one row per physical
\* column (none for timestamp) recording sensor, column name and the
\* units, precision and scale of the column's own descriptor, whatever the
\* descriptor's kind and position; without a catalog it writes no metadata
\* and raises nothing.
C12_MetadataRows ==
    [][\A sensor \in SensorNames :
        MakeTableStep(sensor) =>
            /\ status' = "running"
            /\ mdrows' = IF "metadata" \in DOMAIN meta
                         THEN mdrows \o ExpectedMetadata(sensor, data_dict[sensor])
                         ELSE mdrows]_vars

\* the column kind the specification gives a descriptor
ColumnKind(desc) ==
    IF "tostr" \in DOMAIN desc THEN "Text"
    ELSE IF "precision" \in DOMAIN desc /\ desc["precision"] # "1" THEN "Float"
    ELSE "Integer"

KindsOf(desc) == [i \in DOMAIN PhysicalColumns(desc) |-> ColumnKind(desc)]

\* C13: in every table make_table creates, each column's kind follows
\* from its own descriptor: text when tostr is configured, otherwise
\* floating-point when precision is fractional, otherwise integer.
C13_ColumnKind ==
    [][\A sensor \in SensorNames :
        (MakeTableStep(sensor) /\ sensor \in DOMAIN ddl') =>
            [i \in DOMAIN ddl'[sensor] |-> ddl'[sensor][i].ctype]
                = <<"Integer">> \o FlatMap(KindsOf, data_dict[sensor])]_vars

\* insert_data is called with a record for the table make_table created
\* for sensor
WriteRecordStep(sensor) ==
    /\ last'.op = "insert_data"
    /\ nmsgs' = nmsgs + 1
    /\ last'.msg.obj["name"] = sensor
    /\ sensor \in DOMAIN ddl

\* the keys expand_lists produces for field k holding v
FieldKeys(k, v) == IF IsList(v) THEN DOMAIN ExpandedItems(k, v) ELSE {k}

\* a value of the shape the descriptor asks for: a sequence of length N,
\* or a scalar when N = 1
ShapedAsClaimed(desc, v) ==
    \/ IsList(v) /\ Len(v.elems) = Multiplicity(desc)
    \/ ~IsList(v) /\ Multiplicity(desc) = 1

\* a sequence of length N when N > 1, a scalar when N = 1
ShapedAsBuilt(desc, v) ==
    \/ IsList(v) /\ Len(v.elems) = Multiplicity(desc) /\ Multiplicity(desc) > 1
    \/ ~IsList(v) /\ Multiplicity(desc) = 1

\* the names agree and the record goes into the table: every key is a
\* column, every column but timestamp is a key, and the row is stored
\* with a value in every column (or reported as a duplicate time stamp)
NamesAgree(sensor, rec) ==
    /\ \A i \in DOMAIN data_dict[sensor] :
        LET desc == data_dict[sensor][i]
        IN  FieldKeys(desc["name"], rec[desc["name"]])
                = {column_names(desc)[j] : j \in DOMAIN column_names(desc)}
    /\ UNION {FieldKeys(k, rec[k]) : k \in DOMAIN rec} \cup {"timestamp"}
            = ColumnNames(ddl[sensor])
    /\ status' = "running"
    /\ \/ /\ Len(tables'[sensor]) = Len(tables[sensor]) + 1
          /\ \A c \in ColumnNames(ddl[sensor]) :
                tables'[sensor][Len(tables'[sensor])][c] # Null
       \/ /\ stderr' # stderr           \* the time stamp is already stored
          /\ tables' = tables

\* C15 as stated: for every field holding a sequence of length N >= 1, or
\* a scalar when N = 1, expand_lists and make_table give the same names
\* and the expanded record is inserted without an unknown-column error.
C15_NamesAgreeAll ==
    [][\A sensor \in SensorNames :
        (/\ WriteRecordStep(sensor)
         /\ \A i \in DOMAIN data_dict[sensor] :
                ShapedAsClaimed(data_dict[sensor][i],
                                last'.msg.obj["data"][data_dict[sensor][i]["name"]]))
        => NamesAgree(sensor, last'.msg.obj["data"])]_vars

\* C15, amended: for every field holding a sequence of length N when
\* N > 1, or a scalar when N = 1, expand_lists and make_table give the same
\* names and the expanded record is inserted without an unknown-column
\* error.
C15_NamesAgree ==
    [][\A sensor \in SensorNames :
        (/\ WriteRecordStep(sensor)
         /\ \A i \in DOMAIN data_dict[sensor] :
                ShapedAsBuilt(data_dict[sensor][i],
                              last'.msg.obj["data"][data_dict[sensor][i]["name"]]))
        => NamesAgree(sensor, last'.msg.obj["data"])]_vars

\* a record holding a three-element sequence v and a scalar w has been
\* stored in a table made for {name: v, nvals: 3} and {name: w}
C15_Witness ==
    /\ "ctd" \in DOMAIN ddl
    /\ [i \in DOMAIN data_dict["ctd"] |-> Multiplicity(data_dict["ctd"][i])] = <<3, 1>>
    /\ last.op = "insert_data"
    /\ Len(last.msg.obj["data"]["v"].elems) = 3
    /\ ~IsList(last.msg.obj["data"]["w"])
    /\ Len(tables["ctd"]) = 1
    /\ DOMAIN tables["ctd"][1] = {"timestamp", "v_0", "v_1", "v_2", "w"}
    /\ \A c \in DOMAIN tables["ctd"][1] : tables["ctd"][1][c] # Null
    /\ status = "running"

(***************************************************************************)
(* Specification SpecExpand: expand_lists applied to a dictionary, then to *)
(* its own result.                                                         *)
(***************************************************************************)
InitExpand ==
    /\ data \in DictsOver(FieldNames, Values)
    /\ newdict = EmptyDict
    /\ twice = EmptyDict
    /\ xpc = "input"
    /\ SinkIdle
    /\ MonitorIdle
    /\ SchemaIdle

Expand ==
    /\ xpc = "input"
    /\ \E order \in IterOrders(data) : newdict' = expand_lists(data, order)
    /\ xpc' = "expanded"
    /\ UNCHANGED <<data, twice>>
    /\ UNCHANGED svars
    /\ UNCHANGED mvars
    /\ UNCHANGED kvars

ExpandAgain ==
    /\ xpc = "expanded"
    /\ \E order \in IterOrders(newdict) : twice' = expand_lists(newdict, order)
    /\ xpc' = "twice"
    /\ UNCHANGED <<data, newdict>>
    /\ UNCHANGED svars
    /\ UNCHANGED mvars
    /\ UNCHANGED kvars

NextExpand == Expand \/ ExpandAgain

SpecExpand == InitExpand /\ [][NextExpand]_vars

(***************************************************************************)
(* Properties of expand_lists                                              *)
(***************************************************************************)
\* every value is a scalar or a list of scalars
IsFlat(d) == \A k \in ListFields(d) : \A i \in 1..Len(d[k].elems) : ~IsList(d[k].elems[i])

\* no name derived from a list field is already a key of the dictionary
NoCollision(d) ==
    \A k \in ListFields(d) : \A i \in 1..Len(d[k].elems) : ExpandedKey(k, i - 1) \notin DOMAIN d

\* the result is exactly the expansion of d: base removed, base_0..base_{L-1}
\* holding the elements in order, every other field kept with its value
IsExpansionOf(nd, d) ==
    /\ \A k \in ListFields(d) :
          /\ k \notin DOMAIN nd
          /\ \A i \in 1..Len(d[k].elems) :
                /\ ExpandedKey(k, i - 1) \in DOMAIN nd
                /\ nd[ExpandedKey(k, i - 1)] = d[k].elems[i]
    /\ \A k \in ScalarFields(d) :
          /\ k \in DOMAIN nd
          /\ nd[k] = d[k]
    /\ DOMAIN nd =
          ScalarFields(d) \cup
          UNION {{ExpandedKey(k, i - 1) : i \in 1..Len(d[k].elems)} : k \in ListFields(d)}

\* C9 as stated: for every dictionary, also one that already has a scalar
\* field named base_i, expand_lists replaces every list field base of
\* length L by exactly base_0..base_{L-1}, holding the elements in order,
\* removes base, and keeps every non-list field with its original value.
C9_ExpansionExactAll ==
    xpc # "input" => IsExpansionOf(newdict, data)

\* C9 amended: the same, for every dictionary in which no derived name
\* base_i is already a key.
C9_ExpansionExact ==
    (xpc # "input" /\ NoCollision(data)) => IsExpansionOf(newdict, data)

C9_Witness ==
    /\ xpc = "expanded"
    /\ NoCollision(data)
    /\ "v_0" \in ScalarFields(data)
    /\ \E k \in ListFields(data) : Len(data[k].elems) = MaxLen
    /\ \E k \in ListFields(data) : Len(data[k].elems) = 0
    /\ IsExpansionOf(newdict, data)

\* C10 as stated: for every dictionary, nested lists included, the result
\* of one expansion has no list value and a second expansion returns it
\* unchanged.
C10_IdempotentAll ==
    xpc = "twice" => (ListFields(newdict) = {} /\ twice = newdict)

\* C10 amended: for every dictionary whose values are scalars or lists of
\* scalars, the result of one expansion has no list value and a second
\* expansion returns it unchanged.
C10_IdempotentFlat ==
    (xpc = "twice" /\ IsFlat(data)) => (ListFields(newdict) = {} /\ twice = newdict)

C10_Witness ==
    /\ xpc = "twice"
    /\ IsFlat(data)
    /\ \E k \in ListFields(data) : Len(data[k].elems) = MaxLen
    /\ twice = newdict
    /\ newdict # data

====
